---- MODULE Spec2Model ----
(***************************************************************************)
(* A model of lldb's ModuleList (source/Core/ModuleList.cpp): the ordered, *)
(* mutex-guarded registry of shared Module references, and the process-    *)
(* wide shared module list with its get-or-create procedure                *)
(* ModuleList::GetSharedModule.                                            *)
(*                                                                         *)
(* A Module is an identity 1..NumModules (Null = 0 is the empty ModuleSP). *)
(* A registry is a sequence of identities.  The owning references of a     *)
(* Module are the registry entries that hold it, the ModuleSP variables of *)
(* the calling threads, and the other holders counted in extRefs.          *)
(***************************************************************************)
EXTENDS Integers, Sequences, FiniteSets, TLC

\* ------------------------------------------------------------------ bounds
NumModules == 3     \* Module identities that can exist in one behaviour
MaxLen     == 3     \* longest registry explored
MaxRefs    == 1     \* owning references held outside registries and callers
MaxOps     == 4     \* Append calls counted in the Append/Remove accounting
MaxCreate  == 2     \* Modules GetSharedModule constructs in one behaviour
MaxCalls   == 3     \* AppendIfNeeded calls started in one concurrent behaviour
NumPaths   == 2     \* file paths
NumUUIDs   == 2     \* distinct content identifiers
MaxTime    == 2     \* modification times 1..MaxTime
NumThreads == 2     \* threads of the concurrent specification
NumNames   == 2     \* names (or patterns, or source files) a broadcast query asks for
MaxPrior   == 2     \* results the caller's list holds before a broadcast query
MaxMatches == 2     \* the largest max_matches a FindTypes call is given
MaxTouch   == 2     \* replacements of a file by one with another time stamp

Null      == 0
NoPath    == 0
NoUUID    == 0
NoTime    == 0
NoThread  == 0
NotLocated == NoPath - 1   \* the path-resolution collaborator was not asked
ModuleIds == 1..NumModules
Paths     == 1..NumPaths
UUIDs     == 1..NumUUIDs
Threads   == 1..NumThreads
Archs     == {"arm64"}   \* the architectures a spec asks for
NoArch    == "none"
Regs      == {"shared", "A", "B"}
T0        == CHOOSE t \in Threads : \A u \in Threads : t <= u   \* the single thread

VARIABLES
    m_modules,        \* [Regs -> Seq(ModuleIds)]: ModuleList::m_modules of each registry
    m_modules_mutex,  \* [Regs -> [owner, count, recursive]]: ModuleList::m_modules_mutex
    extRefs,          \* [ModuleIds -> Nat]: owning references held by other holders
    modules,          \* [ModuleIds -> Module record]: the Modules constructed so far
    nextId,           \* identity of the next Module to be constructed
    files,            \* [Paths -> [mtime, obj]]: modification time (NoTime when the
                      \* file is absent) and whether it parses as an object file
    clock,            \* the latest modification time handed out
    th,               \* [Threads -> call record]: arguments, position and outputs
    hist              \* history: counters and the registry contents at the start

vars == <<m_modules, m_modules_mutex, extRefs, modules, nextId, files, clock, th, hist>>

\* --------------------------------------------------------- sequence helpers
CountIn(list, m) == Cardinality({i \in 1..Len(list) : list[i] = m})

Contains(list, m) == \E i \in 1..Len(list) : list[i] = m

EraseAt(list, pos) == SubSeq(list, 1, pos - 1) \o SubSeq(list, pos + 1, Len(list))

RECURSIVE FirstIndex(_, _, _)
FirstIndex(list, m, pos) ==
    IF pos > Len(list) THEN 0
    ELSE IF list[pos] = m THEN pos
    ELSE FirstIndex(list, m, pos + 1)

SeqsUpTo(S, n) == UNION {[1..k -> S] : k \in 0..n}

\* ------------------------------------------------- ModuleList: mutation
\* ModuleList::Append: push_back unless the reference is empty.
ModuleList_Append(list, module_sp) ==
    IF module_sp # Null THEN Append(list, module_sp) ELSE list

\* ModuleList::AppendIfNeeded: scan by pointer identity, push_back when absent.
AppendIfNeeded(list, module_sp) ==
    IF module_sp # Null
    THEN IF \E pos \in 1..Len(list) : list[pos] = module_sp
         THEN [list |-> list, ret |-> FALSE]
         ELSE [list |-> Append(list, module_sp), ret |-> TRUE]
    ELSE [list |-> list, ret |-> FALSE]

Remove_last(list, module_sp) ==
    IF module_sp # Null /\ Contains(list, module_sp)
    THEN [list |-> EraseAt(list, CHOOSE i \in 1..Len(list) :
                       /\ list[i] = module_sp
                       /\ \A j \in (i + 1)..Len(list) : list[j] # module_sp),
          ret |-> TRUE]
    ELSE [list |-> list, ret |-> FALSE]

Remove_noerase(list, module_sp) ==
    [list |-> list, ret |-> module_sp # Null /\ Contains(list, module_sp)]

\* ModuleList::Remove(const ModuleSP &): erase the first entry of that identity.
Remove(list, module_sp) ==
    IF module_sp # Null /\ FirstIndex(list, module_sp, 1) # 0
    THEN [list |-> EraseAt(list, FirstIndex(list, module_sp, 1)), ret |-> TRUE]
    ELSE [list |-> list, ret |-> FALSE]

IsUnique_two(list, pos, outside) ==
    outside[list[pos]] + CountIn(list, list[pos]) <= 2

\* shared_ptr::unique() of entry pos: the use count of its Module is 1.  outside
\* counts the owning references that are not entries of this registry.
IsUnique(list, pos, outside) ==
    outside[list[pos]] + CountIn(list, list[pos]) = 1

RECURSIVE RemoveOrphansFrom(_, _, _, _)
RemoveOrphansFrom(list, pos, outside, remove_count) ==
    IF pos > Len(list) THEN [list |-> list, ret |-> remove_count]
    ELSE IF IsUnique(list, pos, outside)
         THEN RemoveOrphansFrom(EraseAt(list, pos), pos, outside, remove_count + 1)
         ELSE RemoveOrphansFrom(list, pos + 1, outside, remove_count)

\* ModuleList::RemoveOrphans: one pass erasing the entries that are unique().
RemoveOrphans(list, outside) == RemoveOrphansFrom(list, 1, outside, 0)

RECURSIVE RemoveEach(_, _, _, _)
RemoveEach(list, module_list, pos, num_removed) ==
    IF pos > Len(module_list) THEN [list |-> list, ret |-> num_removed]
    ELSE LET r == Remove(list, module_list[pos])
         IN  RemoveEach(r.list, module_list, pos + 1,
                        IF r.ret THEN num_removed + 1 ELSE num_removed)

\* ModuleList::Remove(ModuleList &): Remove(*pos) for each entry of the argument.
Remove_ModuleList(list, module_list) == RemoveEach(list, module_list, 1, 0)

\* ModuleList::Clear and ModuleList::Destroy both leave the sequence empty.
Clear(list) == <<>>

\* ModuleList::GetSize
GetSize(list) == Len(list)

\* ModuleList::GetModuleAtIndex: the entry, or an empty reference out of range.
GetModuleAtIndex(list, idx) == IF idx < Len(list) THEN list[idx + 1] ELSE Null

\* ------------------------------------------------------ reference counting
ThreadRefs(m) ==
    Cardinality({t \in Threads : th[t].module_sp = m})
  + Cardinality({t \in Threads : th[t].old_module_sp = m})

\* use_count of a Module: every owning reference there is.
UseCount(m) ==
    extRefs[m] + CountIn(m_modules["shared"], m) + CountIn(m_modules["A"], m)
  + CountIn(m_modules["B"], m) + ThreadRefs(m)

\* the owning references of each Module that are not entries of registry r
Outside(r) == [m \in ModuleIds |-> UseCount(m) - CountIn(m_modules[r], m)]

\* ------------------------------------------------------------ call records
NoSpec == [uuid |-> NoUUID, path |-> NoPath, arch |-> NoArch]

IdleThread ==
    [pc |-> "idle", op |-> "none", reg |-> "A", arg |-> Null, other |-> <<>>,
     spec |-> NoSpec, always_create |-> FALSE, file_spec |-> NotLocated,
     module_sp |-> Null, old_module_sp |-> Null, did_create |-> FALSE,
     error |-> "success", retb |-> FALSE, retn |-> 0,
     out |-> "B", pos |-> 0, end |-> 0, append |-> FALSE, name |-> 0,
     results |-> <<>>, asked |-> <<>>]

\* the record of a finished registry call of thread t
Returned(t, op, r, arg, other, retb, retn) ==
    [th EXCEPT ![t] = [IdleThread EXCEPT !.op = op, !.reg = r, !.arg = arg,
                                !.other = other, !.retb = retb, !.retn = retn,
                                !.module_sp = th[t].module_sp,
                                !.old_module_sp = th[t].old_module_sp]]

\* line 32: Mutex::eMutexTypeRecursive, not held
FreeMutex == [owner |-> NoThread, count |-> 0, recursive |-> TRUE]

NoModule == [path |-> NoPath, mtime |-> NoTime]

NoFile == [mtime |-> NoTime, obj |-> FALSE]

InitCommon ==
    /\ m_modules = [r \in Regs |-> <<>>]
    /\ m_modules_mutex = [r \in Regs |-> FreeMutex]
    /\ th = [t \in Threads |-> IdleThread]
    /\ clock = 1
    /\ hist = [appends |-> 0, removes |-> 0, start |-> <<>>, target |-> Null,
               calls |-> 0, finished |-> 0, trues |-> 0,
               spec |-> NoSpec, located |-> NoPath]

\* ============================================================================
\* Specification SpecReg: one thread calling the mutation operations on the
\* private registry "A".  The caller owns a reference to every Module it
\* passes, so all Modules are alive.
\* ============================================================================
InitReg ==
    /\ InitCommon
    /\ extRefs = [m \in ModuleIds |-> 1]
    /\ modules = [m \in ModuleIds |-> NoModule]
    /\ nextId = NumModules + 1
    /\ files = [p \in Paths |-> NoFile]

UnchangedEnv == UNCHANGED <<m_modules_mutex, modules, nextId, files, clock>>

Call_Append(t, r, module_sp) ==
    /\ Len(ModuleList_Append(m_modules[r], module_sp)) <= MaxLen
    /\ m_modules' = [m_modules EXCEPT ![r] = ModuleList_Append(@, module_sp)]
    /\ th' = Returned(t, "Append", r, module_sp, <<>>, FALSE, 0)

Call_AppendIfNeeded(t, r, module_sp) ==
    /\ Len(AppendIfNeeded(m_modules[r], module_sp).list) <= MaxLen
    /\ LET res == AppendIfNeeded(m_modules[r], module_sp)
       IN  /\ m_modules' = [m_modules EXCEPT ![r] = res.list]
           /\ th' = Returned(t, "AppendIfNeeded", r, module_sp, <<>>, res.ret, 0)

Call_Remove(t, r, module_sp) ==
    LET res == Remove(m_modules[r], module_sp)
    IN  /\ m_modules' = [m_modules EXCEPT ![r] = res.list]
        /\ th' = Returned(t, "Remove", r, module_sp, <<>>, res.ret, 0)

Call_Remove_ModuleList(t, r, module_list) ==
    LET res == Remove_ModuleList(m_modules[r], module_list)
    IN  /\ m_modules' = [m_modules EXCEPT ![r] = res.list]
        /\ th' = Returned(t, "RemoveList", r, Null, module_list, FALSE, res.ret)

Call_Clear(t, r) ==
    /\ m_modules' = [m_modules EXCEPT ![r] = Clear(@)]
    /\ th' = Returned(t, "Clear", r, Null, <<>>, FALSE, 0)

RegAppend == \E m \in ModuleIds \cup {Null} :
    Call_Append(T0, "A", m) /\ UnchangedEnv /\ UNCHANGED <<extRefs, hist>>

RegAppendIfNeeded == \E m \in ModuleIds \cup {Null} :
    Call_AppendIfNeeded(T0, "A", m) /\ UnchangedEnv /\ UNCHANGED <<extRefs, hist>>

RegRemove == \E m \in ModuleIds \cup {Null} :
    Call_Remove(T0, "A", m) /\ UnchangedEnv /\ UNCHANGED <<extRefs, hist>>

RegRemoveList == \E other \in SeqsUpTo(ModuleIds, MaxLen - 1) :
    Call_Remove_ModuleList(T0, "A", other) /\ UnchangedEnv /\ UNCHANGED <<extRefs, hist>>

RegClear ==
    Call_Clear(T0, "A") /\ UnchangedEnv /\ UNCHANGED <<extRefs, hist>>

NextReg == RegAppend \/ RegAppendIfNeeded \/ RegRemove \/ RegRemoveList \/ RegClear

SpecReg == InitReg /\ [][NextReg]_vars

\* C10: Remove(module) erases exactly the first entry of that identity and
\* returns true, or returns false and changes nothing when none matches; every
\* other entry, later duplicates included, keeps its relative order.  Append
\* puts the new entry after all existing ones.
C10_RemoveFirstAppendLast == [][
    LET old == m_modules["A"]
        new == m_modules'["A"]
        c   == th'[T0]
    IN  /\ c.op = "Remove" =>
              IF c.arg # Null /\ Contains(old, c.arg)
              THEN /\ c.retb
                   /\ \E i \in 1..Len(old) :
                        /\ old[i] = c.arg
                        /\ \A j \in 1..(i - 1) : old[j] # c.arg
                        /\ Len(new) = Len(old) - 1
                        /\ \A j \in 1..(i - 1) : new[j] = old[j]
                        /\ \A j \in i..Len(new) : new[j] = old[j + 1]
              ELSE ~c.retb /\ new = old
        /\ c.op = "Append" =>
              IF c.arg # Null
              THEN /\ Len(new) = Len(old) + 1
                   /\ new[Len(new)] = c.arg
                   /\ \A j \in 1..Len(old) : new[j] = old[j]
              ELSE new = old
    ]_vars

\* a Remove that returned true and left a later duplicate of its argument
C10_Witness ==
    /\ th[T0].op = "Remove" /\ th[T0].retb
    /\ Contains(m_modules["A"], th[T0].arg)
    /\ Len(m_modules["A"]) = 2
    /\ m_modules["A"][1] # th[T0].arg

\* C9 (as claimed): after Remove(otherRegistry) no entry of the receiver has the
\* identity of an entry of otherRegistry, and the return value is the number of
\* entries removed.
C9_NoEntryOfOtherLeft ==
    th[T0].op = "RemoveList" =>
        \A i \in 1..Len(m_modules["A"]) : ~Contains(th[T0].other, m_modules["A"][i])

\* ============================================================================
\* Specification SpecAppendRemove: one thread calling only Append and Remove on
\* one registry, with the calls counted.
\* ============================================================================
ARAppend == \E m \in ModuleIds \cup {Null} :
    /\ hist.appends < MaxOps
    /\ Call_Append(T0, "A", m)
    /\ hist' = [hist EXCEPT !.appends = IF m # Null THEN @ + 1 ELSE @]
    /\ UnchangedEnv /\ UNCHANGED extRefs

ARRemove == \E m \in ModuleIds \cup {Null} :
    /\ Call_Remove(T0, "A", m)
    /\ hist' = [hist EXCEPT !.removes = IF th'[T0].retb THEN @ + 1 ELSE @]
    /\ UnchangedEnv /\ UNCHANGED extRefs

NextAppendRemove == ARAppend \/ ARRemove

SpecAppendRemove == InitReg /\ [][NextAppendRemove]_vars

\* C7: under Append and Remove calls of one thread the length of the registry is
\* the number of Append calls with a non-null reference minus the number of
\* Remove calls that returned true; Append(null) and a Remove that returned
\* false leave the registry unchanged.
C7_LengthIsAppendsMinusRemoves == [][
    /\ GetSize(m_modules'["A"]) = hist'.appends - hist'.removes
    /\ (th'[T0].op = "Append" /\ th'[T0].arg = Null) => m_modules' = m_modules
    /\ (th'[T0].op = "Remove" /\ ~th'[T0].retb) => m_modules' = m_modules
    ]_vars

\* several Appends (one of a duplicate) and a successful Remove have happened
C7_Witness ==
    /\ hist.appends = 3 /\ hist.removes = 1
    /\ th[T0].op = "Remove" /\ th[T0].retb
    /\ Len(m_modules["A"]) = 2

\* ============================================================================
\* Specification SpecOrphans: one thread appending to registry "A" and calling
\* RemoveOrphans, while other holders take and drop references.
\* ============================================================================
\* another holder copies a reference of a live Module
Acquire(m) ==
    /\ UseCount(m) >= 1
    /\ extRefs[m] < MaxRefs
    /\ extRefs' = [extRefs EXCEPT ![m] = @ + 1]
    /\ th' = Returned(T0, "Acquire", "A", m, <<>>, FALSE, 0)
    /\ UNCHANGED <<m_modules, hist>> /\ UnchangedEnv

\* a holder drops its reference
Release(m) ==
    /\ extRefs[m] >= 1
    /\ extRefs' = [extRefs EXCEPT ![m] = @ - 1]
    /\ th' = Returned(T0, "Release", "A", m, <<>>, FALSE, 0)
    /\ UNCHANGED <<m_modules, hist>> /\ UnchangedEnv

Call_RemoveOrphans(t, r) ==
    LET res == RemoveOrphans(m_modules[r], Outside(r))
    IN  /\ m_modules' = [m_modules EXCEPT ![r] = res.list]
        /\ th' = Returned(t, "RemoveOrphans", r, Null, m_modules[r], FALSE, res.ret)

OrphAppend == \E m \in ModuleIds :
    /\ UseCount(m) >= 1
    /\ Call_Append(T0, "A", m)
    /\ UnchangedEnv /\ UNCHANGED <<extRefs, hist>>

OrphAcquire == \E m \in ModuleIds : Acquire(m)

OrphRelease == \E m \in ModuleIds : Release(m)

OrphRemoveOrphans ==
    Call_RemoveOrphans(T0, "A") /\ UnchangedEnv /\ UNCHANGED <<extRefs, hist>>

NextOrphans == OrphAppend \/ OrphAcquire \/ OrphRelease \/ OrphRemoveOrphans

SpecOrphans == InitReg /\ [][NextOrphans]_vars

\* a holder outside registry "A" owns a reference to Module m
HasOutsideHolder(m) == Outside("A")[m] >= 1

\* C5: RemoveOrphans removes no entry whose Module has an owning reference
\* outside the registry: those entries are all still there, in the same
\* relative order, when it returns.
C5_HeldEntriesStay == [][
    th'[T0].op = "RemoveOrphans" =>
        SelectSeq(m_modules'["A"], HasOutsideHolder)
            = SelectSeq(m_modules["A"], HasOutsideHolder)
    ]_vars

\* RemoveOrphans removed something and kept a held entry that followed an orphan
C5_Witness ==
    /\ th[T0].op = "RemoveOrphans" /\ th[T0].retn >= 1
    /\ Len(th[T0].other) >= 2
    /\ ~HasOutsideHolder(th[T0].other[1])
    /\ m_modules["A"] # <<>>
    /\ \A i \in 1..Len(m_modules["A"]) : HasOutsideHolder(m_modules["A"][i])

\* C6 (as claimed): when RemoveOrphans returns, no entry without an outside
\* holder is left, and the return value is the number of entries removed.
C6_NoOrphanLeft ==
    th[T0].op = "RemoveOrphans" =>
        /\ \A i \in 1..Len(m_modules["A"]) : HasOutsideHolder(m_modules["A"][i])
        /\ th[T0].retn = Len(th[T0].other) - Len(m_modules["A"])

\* ============================================================================
\* The collaborators of GetSharedModule: the file system, the Module
\* constructor and its accessors, and the path-resolution collaborator.
\* A file is a path with a modification time; its content identifier and its
\* architecture are fixed by the path.
\* ============================================================================
\* FileSpec::Exists
FileExists(p) == p # NoPath /\ files[p].mtime # NoTime

\* FileSpec::GetModificationTime, NoTime (an invalid TimeValue) for no file
FileModTime(p) == IF p = NoPath THEN NoTime ELSE files[p].mtime

\* the UUID an object file at path p has: the first and the last path agree
FileUUID(p) == ((p - 1) % NumUUIDs) + 1

\* the architecture the object file at path p holds
FileArch(p) == IF p % 2 = 0 THEN "arm64" ELSE "x86_64"

\* Module::GetObjectFile of a Module built from spec: there is a file, it
\* parses as an object file and it holds the architecture asked for
HasObjectFile(spec) ==
    /\ FileExists(spec.path)
    /\ files[spec.path].obj
    /\ spec.arch = NoArch \/ spec.arch = FileArch(spec.path)

\* Module::Module(const ModuleSpec &): the file and its modification time
NewModule(spec) == [path |-> spec.path, mtime |-> FileModTime(spec.path)]

\* Module::GetUUID: the identifier read from the Module's object file
GetUUID(mod) == FileUUID(mod.path)

\* Module::GetModificationTime
GetModificationTime(mod) == mod.mtime

\* Module::MatchesModuleSpec: identifier equality alone when the spec carries
\* an identifier, otherwise path equality and architecture compatibility
MatchesModuleSpec(mod, module_spec) ==
    IF module_spec.uuid # NoUUID
    THEN GetUUID(mod) = module_spec.uuid
    ELSE /\ module_spec.path = NoPath \/ mod.path = module_spec.path
         /\ module_spec.arch = NoArch \/ FileArch(mod.path) = module_spec.arch

ModuleSpecs == [uuid : UUIDs \cup {NoUUID}, path : Paths \cup {NoPath},
                arch : Archs \cup {NoArch}]

\* ------------------------------------------------- ModuleList::FindModules
RECURSIVE FindModulesFrom(_, _, _, _)
FindModulesFrom(list, pos, module_spec, matching_module_list) ==
    IF pos > Len(list) THEN matching_module_list
    ELSE FindModulesFrom(list, pos + 1, module_spec,
            IF MatchesModuleSpec(modules[list[pos]], module_spec)
            THEN ModuleList_Append(matching_module_list, list[pos])
            ELSE matching_module_list)

FindModules_total(list, module_spec, matching_module_list) ==
    LET out == FindModulesFrom(list, 1, module_spec, matching_module_list)
    IN  [list |-> out, ret |-> GetSize(out)]

\* ModuleList::FindModules: append every matching entry, in order, to the
\* output registry; return the growth of the output registry.
FindModules(list, module_spec, matching_module_list) ==
    LET out == FindModulesFrom(list, 1, module_spec, matching_module_list)
    IN  [list |-> out, ret |-> GetSize(out) - GetSize(matching_module_list)]

\* ----------------------------------------- ModuleList::GetSharedModule
\* The result of a call or of a part of it: the shared list, the outputs, the
\* Module to construct (create) from newspec, and whether the call returned.
GsmResult(cache, module_sp, old_module_sp, did_create, error, create, newspec, returned) ==
    [cache |-> cache, module_sp |-> module_sp, old_module_sp |-> old_module_sp,
     did_create |-> did_create, error |-> error, create |-> create,
     newspec |-> newspec, returned |-> returned, file_spec |-> NotLocated]

IsFresh_always(module_file_spec, m) == TRUE

\* lines 619-629: the spec has a path whose modification time is valid and is
\* the one Module m recorded
IsFresh(module_file_spec, m) ==
    /\ module_file_spec # NoPath
    /\ FileModTime(module_file_spec) # NoTime
    /\ FileModTime(module_file_spec) = GetModificationTime(modules[m])

\* lines 613-634: the loop over the candidates found in the shared list
RECURSIVE ScanCandidates(_, _, _, _, _)
ScanCandidates(cache, matching_module_list, module_idx, module_spec, old) ==
    IF module_idx >= GetSize(matching_module_list)
    THEN GsmResult(cache, Null, old, FALSE, "success", FALSE, NoSpec, FALSE)
    ELSE LET module_sp == GetModuleAtIndex(matching_module_list, module_idx)
         IN  IF module_spec.uuid # NoUUID
             THEN GsmResult(cache, module_sp, old, FALSE, "success", FALSE, NoSpec, TRUE)
             ELSE IF IsFresh(module_spec.path, module_sp)
             THEN GsmResult(cache, module_sp, old, FALSE, "success", FALSE, NoSpec, TRUE)
             ELSE ScanCandidates(Remove(cache, module_sp).list, matching_module_list,
                                 module_idx + 1, module_spec,
                                 IF old = Null THEN module_sp ELSE old)

\* lines 607-639: search the shared list unless always_create
SearchShared(cache, module_spec, always_create) ==
    IF always_create
    THEN GsmResult(cache, Null, Null, FALSE, "success", FALSE, NoSpec, FALSE)
    ELSE ScanCandidates(cache, FindModules(cache, module_spec, <<>>).list, 0,
                        module_spec, Null)

\* line 652: a UUID was given and it is not the UUID of the new Module
UuidMismatch(module_spec) ==
    module_spec.uuid # NoUUID /\ module_spec.uuid # GetUUID(NewModule(module_spec))

\* lines 642-666: construct a Module from the spec itself
CreateDirect(r, module_spec) ==
    IF HasObjectFile(module_spec) /\ ~UuidMismatch(module_spec)
    THEN GsmResult(r.cache, Null, r.old_module_sp, TRUE, "success", TRUE, module_spec, TRUE)
    ELSE r

\* lines 680-708: the located file does not exist
LocatedFileMissing(r, module_spec, file_spec) ==
    LET error == IF FileExists(file_spec)
                 THEN IF module_spec.arch # NoArch
                      THEN IF module_spec.uuid # NoUUID
                           THEN "does not contain the architecture and UUID"
                           ELSE "does not contain the architecture"
                      ELSE "success"
                 ELSE "does not exist"
    IN  GsmResult(r.cache, Null, r.old_module_sp, FALSE, error, FALSE, NoSpec, TRUE)

\* lines 714-777: search the shared list for the located file, else construct
CreateLocated(r, module_spec, file_spec) ==
    LET platform_module_spec == [module_spec EXCEPT !.path = file_spec]
        found == FindModules(r.cache, platform_module_spec, <<>>)
        first == GetModuleAtIndex(found.list, 0)
        stale == /\ found.ret > 0
                 /\ platform_module_spec.uuid = NoUUID
                 /\ FileModTime(file_spec) # NoTime
                 /\ FileModTime(file_spec) # GetModificationTime(modules[first])
        module_sp == IF found.ret > 0 /\ ~stale THEN first ELSE Null
        cache == IF stale THEN Remove(r.cache, first).list ELSE r.cache
        old == IF stale THEN first ELSE r.old_module_sp
    IN  IF module_sp # Null
        THEN GsmResult(cache, module_sp, old, FALSE, "success", FALSE, NoSpec, TRUE)
        ELSE IF HasObjectFile(platform_module_spec)
        THEN GsmResult(cache, Null, old, TRUE, "success", TRUE, platform_module_spec, TRUE)
        ELSE GsmResult(cache, Null, old, FALSE,
                 IF file_spec # NoPath
                 THEN IF module_spec.arch # NoArch THEN "unable to open architecture"
                      ELSE "unable to open"
                 ELSE IF module_spec.uuid # NoUUID THEN "cannot locate a module for UUID"
                      ELSE "cannot locate a module",
                 FALSE, NoSpec, TRUE)

\* lines 674-780: file_spec is what Symbols::LocateExecutableObjectFile returned
Locate(r, module_spec, file_spec) ==
    IF file_spec # module_spec.path
    THEN IF ~FileExists(file_spec)
         THEN LocatedFileMissing(r, module_spec, file_spec)
         ELSE CreateLocated(r, module_spec, file_spec)
    ELSE GsmResult(r.cache, Null, r.old_module_sp, FALSE, "success", FALSE, NoSpec, TRUE)

\* ModuleList::GetSharedModule, lines 575-781
GetSharedModule(cache, module_spec, always_create, file_spec) ==
    LET r1 == SearchShared(cache, module_spec, always_create)
        r2 == CreateDirect(r1, module_spec)
    IN  IF r1.returned THEN r1
        ELSE IF r2.returned THEN r2
        ELSE [Locate(r2, module_spec, file_spec) EXCEPT !.file_spec = file_spec]

\* GetSharedModule whose shared_module_list.Append (lines 660 and 750) runs
\* twice for the Module it constructed
GsmApply_twice(t, r, rec) ==
    /\ r.create => nextId <= MaxCreate
    /\ m_modules' = [m_modules EXCEPT !["shared"] =
                        IF r.create
                        THEN ModuleList_Append(ModuleList_Append(r.cache, nextId), nextId)
                        ELSE r.cache]
    /\ modules' = IF r.create THEN [modules EXCEPT ![nextId] = NewModule(r.newspec)]
                  ELSE modules
    /\ nextId' = IF r.create THEN nextId + 1 ELSE nextId
    /\ th' = [th EXCEPT ![t] = [rec EXCEPT
                !.module_sp = IF r.create THEN nextId ELSE r.module_sp,
                !.old_module_sp = r.old_module_sp,
                !.did_create = r.did_create, !.error = r.error]]

\* GetSharedModule that hands out the Module it constructed without line 660
\* and line 750, shared_module_list.Append
GsmApply_noappend(t, r, rec) ==
    /\ r.create => nextId <= MaxCreate
    /\ m_modules' = [m_modules EXCEPT !["shared"] = r.cache]
    /\ modules' = IF r.create THEN [modules EXCEPT ![nextId] = NewModule(r.newspec)]
                  ELSE modules
    /\ nextId' = IF r.create THEN nextId + 1 ELSE nextId
    /\ th' = [th EXCEPT ![t] = [rec EXCEPT
                !.module_sp = IF r.create THEN nextId ELSE r.module_sp,
                !.old_module_sp = r.old_module_sp,
                !.did_create = r.did_create, !.error = r.error]]

\* the state after a part of thread t's call produced r: a Module to construct
\* gets the next identity and is appended to the shared list (lines 659, 751);
\* rec is the call record the outputs are written into
GsmApply(t, r, rec) ==
    /\ r.create => nextId <= MaxCreate
    /\ m_modules' = [m_modules EXCEPT !["shared"] =
                        IF r.create THEN ModuleList_Append(r.cache, nextId) ELSE r.cache]
    /\ modules' = IF r.create THEN [modules EXCEPT ![nextId] = NewModule(r.newspec)]
                  ELSE modules
    /\ nextId' = IF r.create THEN nextId + 1 ELSE nextId
    /\ th' = [th EXCEPT ![t] = [rec EXCEPT
                !.module_sp = IF r.create THEN nextId ELSE r.module_sp,
                !.old_module_sp = r.old_module_sp,
                !.did_create = r.did_create, !.error = r.error]]

\* ============================================================================
\* Specification SpecShared: one thread calling GetSharedModule,
\* RemoveSharedModule and RemoveOrphanSharedModules on the shared list while
\* files are rewritten and deleted.
\* ============================================================================
InitShared ==
    /\ InitCommon
    /\ extRefs = [m \in ModuleIds |-> 0]
    /\ modules = [m \in ModuleIds |-> NoModule]
    /\ nextId = 1
    /\ files = [p \in Paths |-> [mtime |-> clock, obj |-> TRUE]]

SharedGet == \E module_spec \in ModuleSpecs, always_create \in BOOLEAN,
                file_spec \in Paths \cup {NoPath} :
    /\ LET r == GetSharedModule(m_modules["shared"], module_spec, always_create,
                                file_spec)
       IN  GsmApply(T0, r, [IdleThread EXCEPT !.op = "GetSharedModule",
                               !.spec = module_spec, !.always_create = always_create,
                               !.file_spec = r.file_spec])
    /\ UNCHANGED <<m_modules_mutex, extRefs, files, clock, hist>>

\* ModuleList::RemoveSharedModule, with a reference the caller holds
SharedRemove == \E m \in ModuleIds :
    /\ UseCount(m) >= 1
    /\ Call_Remove(T0, "shared", m)
    /\ UnchangedEnv /\ UNCHANGED <<extRefs, hist>>

\* ModuleList::RemoveOrphanSharedModules
SharedRemoveOrphans ==
    Call_RemoveOrphans(T0, "shared") /\ UnchangedEnv /\ UNCHANGED <<extRefs, hist>>

\* the caller lets go of the references GetSharedModule gave it
SharedDrop ==
    /\ th[T0].module_sp # Null \/ th[T0].old_module_sp # Null
    /\ th' = [th EXCEPT ![T0] = [IdleThread EXCEPT !.op = "Drop"]]
    /\ UNCHANGED <<m_modules, extRefs, hist>> /\ UnchangedEnv

\* the file at path p is rewritten: it gets a new modification time
WriteFile == \E p \in Paths, obj \in BOOLEAN :
    /\ clock < MaxTime
    /\ clock' = clock + 1
    /\ files' = [files EXCEPT ![p] = [mtime |-> clock + 1, obj |-> obj]]
    /\ th' = Returned(T0, "WriteFile", "shared", Null, <<>>, FALSE, 0)
    /\ UNCHANGED <<m_modules, m_modules_mutex, extRefs, modules, nextId, hist>>

\* the file at path p is deleted
DeleteFile == \E p \in Paths :
    /\ FileExists(p)
    /\ files' = [files EXCEPT ![p] = NoFile]
    /\ th' = Returned(T0, "DeleteFile", "shared", Null, <<>>, FALSE, 0)
    /\ UNCHANGED <<m_modules, m_modules_mutex, extRefs, modules, nextId, clock, hist>>

NextShared ==
    SharedGet \/ SharedRemove \/ SharedRemoveOrphans \/ SharedDrop \/ WriteFile \/ DeleteFile

SpecShared == InitShared /\ [][NextShared]_vars

\* the Modules of the shared list that match spec s, in order
RECURSIVE Matching(_, _)
Matching(list, s) ==
    IF list = <<>> THEN <<>>
    ELSE (IF MatchesModuleSpec(modules[Head(list)], s) THEN <<Head(list)>> ELSE <<>>)
         \o Matching(Tail(list), s)

\* this step is a GetSharedModule call of the single thread
IsGetStep == th'[T0].op = "GetSharedModule"

\* C1: a GetSharedModule call that directly follows a successful call with the
\* same spec and always_create = false (nothing removed, no file changed, the
\* same answer of the path-resolution collaborator) returns the same Module,
\* reports did_create = false and leaves the shared list unchanged, for a spec
\* with an identifier and for a path-only spec whose file has a valid time.
C1_SecondCallReturnsSame == [][
    LET c1 == th[T0]
        c2 == th'[T0]
    IN  ( /\ c1.op = "GetSharedModule" /\ IsGetStep
          /\ c2.spec = c1.spec
          /\ ~c1.always_create /\ ~c2.always_create
          /\ c1.module_sp # Null
          /\ (c1.file_spec # NotLocated /\ c2.file_spec # NotLocated)
                => c1.file_spec = c2.file_spec
          /\ c1.spec.uuid # NoUUID
                \/ (c1.spec.path # NoPath /\ FileModTime(c1.spec.path) # NoTime) )
        => /\ c2.module_sp = c1.module_sp
           /\ ~c2.did_create
           /\ m_modules'["shared"] = m_modules["shared"]
    ]_vars

C4_NullModuleHasError ==
    th[T0].op = "GetSharedModule" =>
        (th[T0].module_sp = Null => th[T0].error # "success")

\* the modules that have more entries in the second list than in the first
AddedTo(before, after) ==
    {m \in ModuleIds : CountIn(after, m) > CountIn(before, m)}

\* C18: a GetSharedModule call that returns a module returns an entry of the
\* shared list as it is when the call returns; did_create is true exactly when
\* that module was constructed by this call (it did not exist and was not in the
\* shared list when the call started); the call puts nothing into the shared
\* list but the module it returns, so a module that was constructed and
\* discarded, or a call that returns no module, adds no entry.
C18_ReturnedModuleIsCached == [][
    IsGetStep =>
        LET c == th'[T0]
            before == m_modules["shared"]
            after == m_modules'["shared"]
        IN  /\ c.module_sp # Null =>
                  /\ Contains(after, c.module_sp)
                  /\ c.did_create <=> (modules[c.module_sp] = NoModule
                                          /\ ~Contains(before, c.module_sp))
                  /\ c.did_create <=> ~Contains(before, c.module_sp)
            /\ AddedTo(before, after) \subseteq ({c.module_sp} \ {Null})
            /\ c.module_sp = Null => ~c.did_create /\ nextId' = nextId
            /\ \A m \in ModuleIds :
                  modules[m] = NoModule /\ modules'[m] # NoModule => m = c.module_sp
    ]_vars

\* a call found no usable object file at the path of its spec, constructed a
\* Module from the path the locator gave and returned it as a new entry, next
\* to an entry that was there before
C18_Witness ==
    /\ th[T0].op = "GetSharedModule"
    /\ th[T0].module_sp # Null
    /\ th[T0].did_create
    /\ th[T0].file_spec # NotLocated
    /\ Len(m_modules["shared"]) = 2
    /\ m_modules["shared"][2] = th[T0].module_sp

\* the terminal outcomes of a GetSharedModule call
ReturnCached(c) == c.module_sp # Null /\ ~c.did_create /\ c.error = "success"

ReturnNewlyCreated(c) == c.module_sp # Null /\ c.did_create /\ c.error = "success"

FailWithError(c) == c.module_sp = Null /\ ~c.did_create /\ c.error # "success"

\* C19 (as claimed): every finished GetSharedModule call has ended in exactly
\* one of the outcomes return-cached, return-newly-created and fail-with-error.
C19_ExactlyOneOutcome ==
    th[T0].op = "GetSharedModule" =>
        Cardinality({o \in {"cached", "created", "failed"} :
            \/ o = "cached" /\ ReturnCached(th[T0])
            \/ o = "created" /\ ReturnNewlyCreated(th[T0])
            \/ o = "failed" /\ FailWithError(th[T0])}) = 1

\* C20 (as claimed): a call whose search and direct construction gave nothing
\* and whose locator answered the empty path fails with "cannot locate a
\* module", or "cannot locate a module for UUID" when the spec has an
\* identifier; a call whose locator answered a path other than the spec's path
\* that does not exist fails with "does not exist".
C20_UnresolvableSpecError ==
    LET c == th[T0]
    IN  c.op = "GetSharedModule" /\ c.file_spec # NotLocated =>
            /\ c.file_spec = NoPath =>
                  /\ c.module_sp = Null
                  /\ c.error = IF c.spec.uuid # NoUUID
                               THEN "cannot locate a module for UUID"
                               ELSE "cannot locate a module"
            /\ (c.file_spec # NoPath /\ c.file_spec # c.spec.path
                    /\ ~FileExists(c.file_spec)) =>
                  c.module_sp = Null /\ c.error = "does not exist"

\* C22 (as claimed): a GetSharedModule call with a spec that carries an
\* identifier returns, when it returns a module, a module whose own identifier
\* is the identifier of the spec, whether it came from the shared list, from
\* the direct construction or from the construction at the located path.
C22_ReturnedUuidIsSpecUuid ==
    LET c == th[T0]
    IN  (c.op = "GetSharedModule" /\ c.spec.uuid # NoUUID /\ c.module_sp # Null)
            => GetUUID(modules[c.module_sp]) = c.spec.uuid

\* C25 (as claimed): a GetSharedModule call that returns no module leaves the
\* shared list as it was when the call started, also when it found candidates
\* for a spec without identifier and took them for stale.
C25_FailedCallKeepsCache == [][
    (IsGetStep /\ th'[T0].module_sp = Null)
        => m_modules'["shared"] = m_modules["shared"]
    ]_vars

\* ============================================================================
\* Specification SpecStale: one thread calling GetSharedModule with specs
\* without identifier while files are replaced. The file that replaces another
\* carries any valid modification time, an older one included (lines 624-626
\* and 729 compare the times with == and !=); clock counts the replacements.
\* ============================================================================
PathOnlySpecs == {s \in ModuleSpecs : s.uuid = NoUUID}

StaleGet == \E module_spec \in PathOnlySpecs, always_create \in BOOLEAN,
               file_spec \in Paths \cup {NoPath} :
    /\ LET r == GetSharedModule(m_modules["shared"], module_spec, always_create,
                                file_spec)
       IN  GsmApply(T0, r, [IdleThread EXCEPT !.op = "GetSharedModule",
                               !.spec = module_spec, !.always_create = always_create,
                               !.file_spec = r.file_spec])
    /\ UNCHANGED <<m_modules_mutex, extRefs, files, clock, hist>>

\* the file at path p is replaced by a file with the modification time t
ReplaceFile == \E p \in Paths, t \in 1..MaxTime, obj \in BOOLEAN :
    /\ clock <= MaxTouch
    /\ t # files[p].mtime
    /\ clock' = clock + 1
    /\ files' = [files EXCEPT ![p] = [mtime |-> t, obj |-> obj]]
    /\ th' = Returned(T0, "ReplaceFile", "shared", Null, <<>>, FALSE, 0)
    /\ UNCHANGED <<m_modules, m_modules_mutex, extRefs, modules, nextId, hist>>

NextStale == StaleGet \/ ReplaceFile

SpecStale == InitShared /\ [][NextStale]_vars

\* the entries of the list that match the spec and whose recorded modification
\* time is not the time of the spec's file, in order
StaleFor(list, s) ==
    SelectSeq(Matching(list, s),
              LAMBDA m : GetModificationTime(modules[m]) # FileModTime(s.path))

\* C23 (as claimed): after a GetSharedModule call with a spec without
\* identifier, always_create = false, whose file has a valid modification
\* time, no entry of the shared list matches the spec with another recorded
\* time, and old_module_sp is the first stale candidate the call removed.
C23_NoStaleMatchLeft == [][
    LET c == th'[T0]
        before == m_modules["shared"]
        after == m_modules'["shared"]
        stale == StaleFor(before, c.spec)
        removed == {m \in ModuleIds : Contains(before, m) /\ ~Contains(after, m)}
    IN  (/\ IsGetStep
         /\ c.spec.uuid = NoUUID /\ ~c.always_create
         /\ FileModTime(c.spec.path) # NoTime)
        => /\ \A i \in 1..Len(after) :
                 MatchesModuleSpec(modules'[after[i]], c.spec)
                     => GetModificationTime(modules'[after[i]]) = FileModTime(c.spec.path)
           /\ stale # <<>> => c.old_module_sp = Head(stale)
           /\ stale = <<>> => c.old_module_sp \in removed \cup {Null}
           /\ removed # {} => c.old_module_sp # Null
    ]_vars

\* ============================================================================
\* The registry mutex: Mutex::Locker on m_modules_mutex, a recursive mutex.
\* ============================================================================
CanLock_free(r, t) == TRUE

\* the mutex of registry r is free, or it is recursive and held by thread t
CanLock(r, t) ==
    \/ m_modules_mutex[r].owner = NoThread
    \/ m_modules_mutex[r].owner = t /\ m_modules_mutex[r].recursive

\* Mutex::Locker constructor: thread t holds the mutex once more
LockBy(r, t) ==
    [m_modules_mutex EXCEPT ![r].owner = t, ![r].count = @ + 1]

\* Mutex::Locker destructor: thread t gives up one hold
UnlockBy(r, t) ==
    IF m_modules_mutex[r].owner # t THEN m_modules_mutex
    ELSE [m_modules_mutex EXCEPT ![r] =
            IF @.count <= 1 THEN [@ EXCEPT !.owner = NoThread, !.count = 0]
            ELSE [@ EXCEPT !.count = @ - 1]]

AllIdle == \A t \in Threads : th[t].pc = "idle"

\* ============================================================================
\* Specification SpecThreadsReg: several threads calling AppendIfNeeded with the
\* same reference (hist.target) on registry "A", which starts as hist.start.
\* Each call is the steps of lines 78-91: lock, scan, push_back, return.
\* ============================================================================
InitThreadsReg ==
    /\ m_modules_mutex = [r \in Regs |-> FreeMutex]
    /\ th = [t \in Threads |-> IdleThread]
    /\ clock = 1
    /\ extRefs = [m \in ModuleIds |-> 1]
    /\ modules = [m \in ModuleIds |-> NoModule]
    /\ nextId = NumModules + 1
    /\ files = [p \in Paths |-> NoFile]
    /\ \E start \in SeqsUpTo(ModuleIds, MaxLen - 1), target \in ModuleIds \cup {Null} :
          /\ m_modules = [r \in Regs |-> IF r = "A" THEN start ELSE <<>>]
          /\ hist = [appends |-> 0, removes |-> 0, start |-> start, target |-> target,
                     calls |-> 0, finished |-> 0, trues |-> 0,
                     spec |-> NoSpec, located |-> NoPath]

\* line 78: a null reference returns false without taking the mutex
AinCall(t) ==
    /\ th[t].pc = "idle"
    /\ hist.calls < MaxCalls
    /\ hist' = [hist EXCEPT !.calls = @ + 1]
    /\ th' = [th EXCEPT ![t] = [IdleThread EXCEPT
                !.pc = IF hist.target # Null THEN "ain_lock" ELSE "ain_return",
                !.op = "AppendIfNeeded", !.arg = hist.target]]
    /\ UNCHANGED <<m_modules, m_modules_mutex, extRefs, modules, nextId, files, clock>>

\* line 80
AinLock(t) ==
    /\ th[t].pc = "ain_lock"
    /\ CanLock("A", t)
    /\ m_modules_mutex' = LockBy("A", t)
    /\ th' = [th EXCEPT ![t].pc = "ain_scan"]
    /\ UNCHANGED <<m_modules, extRefs, modules, nextId, files, clock, hist>>

\* lines 81-86: the scan decides whether the reference is pushed
AinScan(t) ==
    /\ th[t].pc = "ain_scan"
    /\ LET res == AppendIfNeeded(m_modules["A"], th[t].arg)
       IN  th' = [th EXCEPT ![t].retb = res.ret,
                            ![t].pc = IF res.ret THEN "ain_push" ELSE "ain_return"]
    /\ UNCHANGED <<m_modules, m_modules_mutex, extRefs, modules, nextId, files, clock, hist>>

\* line 88
AinPush(t) ==
    /\ th[t].pc = "ain_push"
    /\ m_modules' = [m_modules EXCEPT !["A"] = ModuleList_Append(@, th[t].arg)]
    /\ th' = [th EXCEPT ![t].pc = "ain_return"]
    /\ UNCHANGED <<m_modules_mutex, extRefs, modules, nextId, files, clock, hist>>

\* lines 85, 89, 91: the locker is released and the call returns
AinReturn(t) ==
    /\ th[t].pc = "ain_return"
    /\ m_modules_mutex' = UnlockBy("A", t)
    /\ th' = [th EXCEPT ![t].pc = "idle"]
    /\ hist' = [hist EXCEPT !.finished = @ + 1,
                            !.trues = IF th[t].retb THEN @ + 1 ELSE @]
    /\ UNCHANGED <<m_modules, extRefs, modules, nextId, files, clock>>

NextThreadsReg == \E t \in Threads :
    AinCall(t) \/ AinLock(t) \/ AinScan(t) \/ AinPush(t) \/ AinReturn(t)

SpecThreadsReg == InitThreadsReg /\ [][NextThreadsReg]_vars

\* C8: AppendIfNeeded calls with the same reference, made one after another or
\* concurrently: on a registry that does not contain it exactly one call (the
\* first to finish) returns true and the registry grows by that one entry; on a
\* registry that contains it, or for a null reference, every call returns false
\* and the registry stays as it was.
C8_AppendIfNeededIdempotent ==
    LET m == hist.target
        absent == m # Null /\ ~Contains(hist.start, m)
    IN  /\ hist.trues = IF absent /\ hist.finished >= 1 THEN 1 ELSE 0
        /\ m_modules["A"] \in {hist.start} \cup
                              (IF absent THEN {Append(hist.start, m)} ELSE {})
        /\ AllIdle => m_modules["A"] =
                          IF hist.trues = 1 THEN Append(hist.start, m) ELSE hist.start
        /\ \A t \in Threads :
              (th[t].pc = "idle" /\ th[t].op = "AppendIfNeeded" /\ th[t].retb)
                  => absent

\* three calls with a reference the registry did not hold have finished, one true
C8_Witness ==
    /\ hist.target # Null /\ ~Contains(hist.start, hist.target)
    /\ hist.start # <<>>
    /\ hist.finished = 3 /\ hist.trues = 1
    /\ AllIdle
    /\ \E t \in Threads : th[t].op = "AppendIfNeeded" /\ ~th[t].retb
    /\ Len(m_modules["A"]) = Len(hist.start) + 1

\* ============================================================================
\* Specification SpecThreadsShared: each thread makes one call on the shared
\* list, GetSharedModule with the spec hist.spec (for which the path-resolution
\* collaborator answers hist.located) or RemoveSharedModule, in the steps of the
\* code; the files do not change.
\* ============================================================================
InitThreadsShared ==
    /\ m_modules = [r \in Regs |-> <<>>]
    /\ m_modules_mutex = [r \in Regs |-> FreeMutex]
    /\ th = [t \in Threads |-> IdleThread]
    /\ clock = 1
    /\ extRefs = [m \in ModuleIds |-> 0]
    /\ modules = [m \in ModuleIds |-> NoModule]
    /\ nextId = 1
    /\ files = [p \in Paths |-> [mtime |-> 1, obj |-> TRUE]]
    /\ \E module_spec \in ModuleSpecs, file_spec \in Paths \cup {NoPath} :
          hist = [appends |-> 0, removes |-> 0, start |-> <<>>, target |-> Null,
                  calls |-> 0, finished |-> 0, trues |-> 0,
                  spec |-> module_spec, located |-> file_spec]

UnchangedFiles == UNCHANGED <<files, clock, extRefs, hist>>

\* the outputs and the shared list as thread t's call has them now
GsmCurrent(t) ==
    GsmResult(m_modules["shared"], th[t].module_sp, th[t].old_module_sp,
              th[t].did_create, th[t].error, FALSE, NoSpec, FALSE)

GsmCall(t) == \E always_create \in BOOLEAN :
    /\ th[t].pc = "idle" /\ th[t].op = "none"
    /\ th' = [th EXCEPT ![t] = [IdleThread EXCEPT
                !.pc = "gsm_lock", !.op = "GetSharedModule", !.spec = hist.spec,
                !.always_create = always_create, !.file_spec = hist.located]]
    /\ UNCHANGED <<m_modules, m_modules_mutex, modules, nextId>> /\ UnchangedFiles

\* lines 586-598
GsmLock(t) ==
    /\ th[t].pc = "gsm_lock"
    /\ CanLock("shared", t)
    /\ m_modules_mutex' = LockBy("shared", t)
    /\ th' = [th EXCEPT ![t].pc = "gsm_search", ![t].module_sp = Null,
                        ![t].old_module_sp = Null, ![t].did_create = FALSE]
    /\ UNCHANGED <<m_modules, modules, nextId>> /\ UnchangedFiles

\* lines 607-639
GsmSearch(t) ==
    /\ th[t].pc = "gsm_search"
    /\ LET r == SearchShared(m_modules["shared"], th[t].spec, th[t].always_create)
       IN  GsmApply(t, r, [th[t] EXCEPT
                              !.pc = IF r.returned THEN "gsm_return" ELSE "gsm_create"])
    /\ UNCHANGED m_modules_mutex /\ UnchangedFiles

\* lines 642-666
GsmCreate(t) ==
    /\ th[t].pc = "gsm_create"
    /\ LET r == CreateDirect(GsmCurrent(t), th[t].spec)
       IN  GsmApply(t, r, [th[t] EXCEPT
                              !.pc = IF r.returned THEN "gsm_return" ELSE "gsm_locate"])
    /\ UNCHANGED m_modules_mutex /\ UnchangedFiles

\* lines 674-780
GsmLocate(t) ==
    /\ th[t].pc = "gsm_locate"
    /\ GsmApply(t, Locate(GsmCurrent(t), th[t].spec, th[t].file_spec),
                [th[t] EXCEPT !.pc = "gsm_return"])
    /\ UNCHANGED m_modules_mutex /\ UnchangedFiles

\* the locker of line 587 is released and the call returns
GsmReturn(t) ==
    /\ th[t].pc = "gsm_return"
    /\ m_modules_mutex' = UnlockBy("shared", t)
    /\ th' = [th EXCEPT ![t].pc = "done"]
    /\ UNCHANGED <<m_modules, modules, nextId>> /\ UnchangedFiles

\* ModuleList::RemoveSharedModule with a reference to a Module of the list
RmCall(t) == \E m \in ModuleIds :
    /\ th[t].pc = "idle" /\ th[t].op = "none"
    /\ Contains(m_modules["shared"], m)
    /\ th' = [th EXCEPT ![t] = [IdleThread EXCEPT
                !.pc = "rm_lock", !.op = "Remove", !.reg = "shared", !.arg = m]]
    /\ UNCHANGED <<m_modules, m_modules_mutex, modules, nextId>> /\ UnchangedFiles

\* line 99
RmLock(t) ==
    /\ th[t].pc = "rm_lock"
    /\ CanLock("shared", t)
    /\ m_modules_mutex' = LockBy("shared", t)
    /\ th' = [th EXCEPT ![t].pc = "rm_erase"]
    /\ UNCHANGED <<m_modules, modules, nextId>> /\ UnchangedFiles

\* lines 100-110
RmErase(t) ==
    /\ th[t].pc = "rm_erase"
    /\ LET res == Remove(m_modules["shared"], th[t].arg)
       IN  /\ m_modules' = [m_modules EXCEPT !["shared"] = res.list]
           /\ th' = [th EXCEPT ![t].pc = "rm_return", ![t].retb = res.ret]
    /\ UNCHANGED <<m_modules_mutex, modules, nextId>> /\ UnchangedFiles

RmReturn(t) ==
    /\ th[t].pc = "rm_return"
    /\ m_modules_mutex' = UnlockBy("shared", t)
    /\ th' = [th EXCEPT ![t].pc = "done"]
    /\ UNCHANGED <<m_modules, modules, nextId>> /\ UnchangedFiles

NextThreadsShared == \E t \in Threads :
    \/ GsmCall(t) \/ GsmLock(t) \/ GsmSearch(t) \/ GsmCreate(t) \/ GsmLocate(t)
    \/ GsmReturn(t)
    \/ RmCall(t) \/ RmLock(t) \/ RmErase(t) \/ RmReturn(t)

SpecThreadsShared == InitThreadsShared /\ [][NextThreadsShared]_vars

\* every thread has finished a successful GetSharedModule call, always_create =
\* false, with a spec that carries an identifier or a path
AllGotModule ==
    /\ hist.spec.uuid # NoUUID \/ hist.spec.path # NoPath
    /\ \A t \in Threads :
          /\ th[t].pc = "done" /\ th[t].op = "GetSharedModule"
          /\ ~th[t].always_create
          /\ th[t].module_sp # Null

\* C2 (as claimed): when the threads call GetSharedModule concurrently with the
\* same spec on a shared list that holds no match and all succeed, one Module
\* was constructed and appended, every caller has that Module and exactly one
\* of them has did_create = true.
C2_OneModuleForAll ==
    AllGotModule =>
        /\ \A t, u \in Threads : th[t].module_sp = th[u].module_sp
        /\ Cardinality({t \in Threads : th[t].did_create}) = 1
        /\ m_modules["shared"] = <<th[T0].module_sp>>
        /\ nextId = 2

\* between the search and the return of one call no other thread changes the
\* shared list
C2_NoInterference == [][
    \A t \in Threads :
        (th[t].pc \in {"gsm_create", "gsm_locate", "gsm_return"} /\ th'[t] = th[t])
            => m_modules'["shared"] = m_modules["shared"]
    ]_vars

\* ============================================================================
\* Specification SpecThreadsCache: several threads, each making one call after
\* another of GetSharedModule (the spec hist.spec), RemoveSharedModule and
\* RemoveOrphanSharedModules, in the steps of the code.
\* ============================================================================

\* ModuleList::RemoveSharedModule (module_sp), lines 783-787, by a thread with
\* the reference its GetSharedModule call gave it
RmCallHeld(t) ==
    /\ th[t].pc = "done" /\ th[t].op = "GetSharedModule"
    /\ th[t].module_sp # Null
    /\ hist.calls < MaxCalls
    /\ hist' = [hist EXCEPT !.calls = @ + 1]
    /\ th' = [th EXCEPT ![t] = [IdleThread EXCEPT
                !.pc = "rm_lock", !.op = "Remove", !.reg = "shared",
                !.arg = th[t].module_sp, !.module_sp = th[t].module_sp]]
    /\ UNCHANGED <<m_modules, m_modules_mutex, modules, nextId, files, clock, extRefs>>

\* ModuleList::RemoveOrphanSharedModules, lines 569-573
RoCall(t) ==
    /\ th[t].pc = "idle" /\ th[t].op = "none"
    /\ th' = [th EXCEPT ![t] = [IdleThread EXCEPT
                !.pc = "ro_lock", !.op = "RemoveOrphans", !.reg = "shared"]]
    /\ UNCHANGED <<m_modules, m_modules_mutex, modules, nextId>> /\ UnchangedFiles

\* line 116
RoLock(t) ==
    /\ th[t].pc = "ro_lock"
    /\ CanLock("shared", t)
    /\ m_modules_mutex' = LockBy("shared", t)
    /\ th' = [th EXCEPT ![t].pc = "ro_scan"]
    /\ UNCHANGED <<m_modules, modules, nextId>> /\ UnchangedFiles

\* lines 117-131
RoScan(t) ==
    /\ th[t].pc = "ro_scan"
    /\ LET res == RemoveOrphans(m_modules["shared"], Outside("shared"))
       IN  /\ m_modules' = [m_modules EXCEPT !["shared"] = res.list]
           /\ th' = [th EXCEPT ![t].pc = "ro_return", ![t].retn = res.ret]
    /\ UNCHANGED <<m_modules_mutex, modules, nextId>> /\ UnchangedFiles

RoReturn(t) ==
    /\ th[t].pc = "ro_return"
    /\ m_modules_mutex' = UnlockBy("shared", t)
    /\ th' = [th EXCEPT ![t].pc = "done"]
    /\ UNCHANGED <<m_modules, modules, nextId>> /\ UnchangedFiles

\* a thread whose call has returned lets go of the references it got and is
\* ready for its next call
Again(t) ==
    /\ th[t].pc = "done"
    /\ hist.calls < MaxCalls
    /\ hist' = [hist EXCEPT !.calls = @ + 1]
    /\ th' = [th EXCEPT ![t] = IdleThread]
    /\ UNCHANGED <<m_modules, m_modules_mutex, modules, nextId, files, clock, extRefs>>

NextThreadsCache == \E t \in Threads :
    \/ GsmCall(t) \/ GsmLock(t) \/ GsmSearch(t) \/ GsmCreate(t) \/ GsmLocate(t)
    \/ GsmReturn(t)
    \/ RmCallHeld(t) \/ RmLock(t) \/ RmErase(t) \/ RmReturn(t)
    \/ RoCall(t) \/ RoLock(t) \/ RoScan(t) \/ RoReturn(t)
    \/ Again(t)

SpecThreadsCache == InitThreadsShared /\ [][NextThreadsCache]_vars

\* C24: no Module is in the shared list twice, whatever the threads'
\* GetSharedModule, RemoveSharedModule and RemoveOrphanSharedModules calls have
\* done so far; so an entry nobody else holds has one owning reference, and a
\* RemoveOrphanSharedModules scan removes it.
C24_SharedEntriesDistinct == [][
    /\ \A m \in ModuleIds : /\ CountIn(m_modules["shared"], m) <= 1
                             /\ CountIn(m_modules'["shared"], m) <= 1
    /\ \A t \in Threads :
          (th[t].pc = "ro_scan" /\ th'[t].pc = "ro_return") =>
              \A m \in ModuleIds :
                  (Contains(m_modules["shared"], m) /\ Outside("shared")[m] = 0)
                      => /\ UseCount(m) = 1
                         /\ ~Contains(m_modules'["shared"], m)
    ]_vars

\* a RemoveOrphanSharedModules call has removed an entry nobody held and has
\* left an entry another thread holds
C24_Witness ==
    \E t, u \in Threads :
        /\ th[t].op = "RemoveOrphans" /\ th[t].pc = "done" /\ th[t].retn = 1
        /\ th[u].module_sp # Null
        /\ m_modules["shared"] = <<th[u].module_sp>>
        /\ nextId = 3

\* ============================================================================
\* Specification SpecQueries: one thread calling the query operations on the
\* registry "A", whose contents are drawn at the start.  The Modules are alive
\* and built from existing files (two of them from the same file); "B" is the
\* caller's output registry and th[T0].other the caller's result list.
\* ============================================================================
InitQueries ==
    /\ m_modules_mutex = [r \in Regs |-> FreeMutex]
    /\ th = [t \in Threads |-> IdleThread]
    /\ clock = 1
    /\ extRefs = [m \in ModuleIds |-> 1]
    /\ modules = [m \in ModuleIds |-> [path |-> ((m - 1) % NumPaths) + 1, mtime |-> 1]]
    /\ nextId = NumModules + 1
    /\ files = [p \in Paths |-> [mtime |-> 1, obj |-> TRUE]]
    /\ \E a \in SeqsUpTo(ModuleIds, MaxLen), b \in SeqsUpTo(ModuleIds, 1) :
          /\ m_modules = [r \in Regs |-> IF r = "A" THEN a ELSE IF r = "B" THEN b ELSE <<>>]
          /\ hist = [appends |-> 0, removes |-> 0, start |-> a, target |-> Null,
                     calls |-> 0, finished |-> 0, trues |-> 0,
                     spec |-> NoSpec, located |-> NoPath]

UnchangedQuery == UNCHANGED <<m_modules_mutex, extRefs, modules, nextId, files, clock, hist>>

\* the record of a finished query of the single thread; the caller keeps its
\* result list
Queried(op) == [IdleThread EXCEPT !.op = op, !.other = th[T0].other]

\* ModuleList::FindFirstModule, lines 390-404
RECURSIVE FindFirstModuleFrom(_, _, _)
FindFirstModuleFrom(list, pos, module_spec) ==
    IF pos > Len(list) THEN Null
    ELSE IF MatchesModuleSpec(modules[list[pos]], module_spec) THEN list[pos]
    ELSE FindFirstModuleFrom(list, pos + 1, module_spec)

FindFirstModule(list, module_spec) == FindFirstModuleFrom(list, 1, module_spec)

\* A.FindModules(module_spec, B)
QFindModules == \E module_spec \in ModuleSpecs :
    LET res == FindModules(m_modules["A"], module_spec, m_modules["B"])
    IN  /\ Len(res.list) <= MaxLen
        /\ m_modules' = [m_modules EXCEPT !["B"] = res.list]
        /\ th' = [th EXCEPT ![T0] = [Queried("FindModules") EXCEPT
                     !.spec = module_spec, !.retn = res.ret]]
        /\ UnchangedQuery

\* A.FindFirstModule(module_spec)
QFindFirstModule == \E module_spec \in ModuleSpecs :
    /\ th' = [th EXCEPT ![T0] = [Queried("FindFirstModule") EXCEPT
                 !.spec = module_spec,
                 !.arg = FindFirstModule(m_modules["A"], module_spec)]]
    /\ UNCHANGED m_modules /\ UnchangedQuery

\* LLDB_INVALID_INDEX32, the uint32_t value 0xFFFFFFFF, written as the integer
\* that has this bit pattern in 32 bits
LLDB_INVALID_INDEX32 == 0 - 1

\* ModuleList::GetModulePointerAtIndex, lines 166-173: the identity at idx
GetModulePointerAtIndex(list, idx) ==
    IF idx < Len(list) THEN list[idx + 1] ELSE Null

GetIndexForModule_last(list, module) ==
    IF module # Null /\ Contains(list, module)
    THEN (CHOOSE i \in 1..Len(list) :
             list[i] = module /\ \A j \in (i + 1)..Len(list) : list[j] # module) - 1
    ELSE LLDB_INVALID_INDEX32

\* ModuleList::GetIndexForModule, lines 527-543: the distance from begin to
\* the first entry with the identity
GetIndexForModule(list, module) ==
    IF module # Null /\ FirstIndex(list, module, 1) # 0
    THEN FirstIndex(list, module, 1) - 1
    ELSE LLDB_INVALID_INDEX32

\* ModuleList::FindModule (const Module *), lines 308-329
FindModule(list, module_ptr) ==
    IF FirstIndex(list, module_ptr, 1) # 0
    THEN list[FirstIndex(list, module_ptr, 1)]
    ELSE Null

\* A.GetModuleAtIndex(idx)
QGetModuleAtIndex == \E idx \in 0..(MaxLen + 1) :
    /\ th' = [th EXCEPT ![T0] = [Queried("GetModuleAtIndex") EXCEPT
                 !.pos = idx,
                 !.module_sp = GetModuleAtIndex(m_modules["A"], idx),
                 !.arg = GetModulePointerAtIndex(m_modules["A"], idx)]]
    /\ UNCHANGED m_modules /\ UnchangedQuery

\* A.GetIndexForModule(module)
QGetIndexForModule == \E module \in ModuleIds \cup {Null} :
    /\ th' = [th EXCEPT ![T0] = [Queried("GetIndexForModule") EXCEPT
                 !.arg = module,
                 !.retn = GetIndexForModule(m_modules["A"], module)]]
    /\ UNCHANGED m_modules /\ UnchangedQuery

\* A.FindModule(module_ptr)
QFindModule == \E module_ptr \in ModuleIds \cup {Null} :
    /\ th' = [th EXCEPT ![T0] = [Queried("FindModule") EXCEPT
                 !.arg = module_ptr,
                 !.module_sp = FindModule(m_modules["A"], module_ptr)]]
    /\ UNCHANGED m_modules /\ UnchangedQuery

NextQueries ==
    \/ QFindModules \/ QFindFirstModule
    \/ QGetModuleAtIndex \/ QGetIndexForModule \/ QFindModule

SpecQueries == InitQueries /\ [][NextQueries]_vars

\* the entries of list that match spec s, in order
MatchesOf(list, s) == SelectSeq(list, LAMBDA m : MatchesModuleSpec(modules[m], s))

\* C11: FindModules(spec, out) appends to the output registry exactly the
\* entries of the receiver that match the spec, in the receiver's order and
\* without clearing or deduplicating the output, returns the number of entries
\* appended and leaves the receiver unchanged; FindFirstModule(spec) returns
\* the first of those entries, or an empty reference when none matches.
C11_FindModulesAppendsMatches == [][
    LET c == th'[T0]
        matches == MatchesOf(m_modules["A"], c.spec)
    IN  /\ c.op = "FindModules" =>
              /\ m_modules'["B"] = m_modules["B"] \o matches
              /\ c.retn = Len(matches)
              /\ c.retn = Len(m_modules'["B"]) - Len(m_modules["B"])
              /\ m_modules'["A"] = m_modules["A"]
        /\ c.op = "FindFirstModule" =>
              /\ c.arg = IF matches = <<>> THEN Null ELSE Head(matches)
              /\ m_modules' = m_modules
    ]_vars

\* FindModules added two entries to an output registry that was not empty, one
\* of them a Module the output already held, and fewer than the receiver holds
C11_Witness ==
    /\ th[T0].op = "FindModules" /\ th[T0].retn = 2
    /\ Len(m_modules["B"]) = 3
    /\ Len(m_modules["A"]) = 3
    /\ \E i, j \in 1..3 : i < j /\ m_modules["B"][i] = m_modules["B"][j]

\* ============================================================================
\* The broadcast queries: the registry hands the query to every Module in
\* order and the Modules put their results into the caller's list.  A result
\* is written as the identity of the Module it was found in.
\* ============================================================================
Names == 1..NumNames

\* what Module m holds for a name: nothing, one result, or two (Module 1)
ModuleHits(m, name) ==
    IF m % NumNames = name % NumNames
    THEN IF m = 1 THEN <<m, m>> ELSE <<m>>
    ELSE <<>>

\* the Module's own FindFunctions, FindCompileUnits, FindGlobalVariables,
\* FindSymbols... or ResolveSymbolContextsForFileSpec: with append = false the
\* Module clears the list it is given; at most max_matches results of this
\* Module are added (max_matches = 0: no limit)
Module_Query(m, name, append, max_matches, variable_list) ==
    LET hits == ModuleHits(m, name)
        kept == IF max_matches > 0 /\ Len(hits) > max_matches
                THEN SubSeq(hits, 1, max_matches) ELSE hits
    IN  (IF append THEN variable_list ELSE <<>>) \o kept

\* the loop "for (pos = m_modules.begin(); pos != end; ++pos) (*pos)->Find...":
\* every Module is called in order with the flag module_append
RECURSIVE ForEachModule(_, _, _, _, _, _)
ForEachModule(list, pos, name, module_append, max_matches, results) ==
    IF pos > Len(list) THEN results
    ELSE ForEachModule(list, pos + 1, name, module_append, max_matches,
             Module_Query(list[pos], name, module_append, max_matches,
                                        results))

\* ModuleList::FindFunctions, lines 185-204: clear unless append, pass append =
\* true to every Module, return sc_list.GetSize()
FindFunctions(list, name, append, sc_list) ==
    LET start == IF ~append THEN <<>> ELSE sc_list
        out == ForEachModule(list, 1, name, TRUE, 0, start)
    IN  [results |-> out, ret |-> Len(out)]

\* ModuleList::FindCompileUnits, lines 206-222
FindCompileUnits(list, path, append, sc_list) ==
    LET start == IF ~append THEN <<>> ELSE sc_list
        out == ForEachModule(list, 1, path, TRUE, 0, start)
    IN  [results |-> out, ret |-> Len(out)]

\* ModuleList::FindGlobalVariables (name), lines 224-238: the caller's append
\* flag goes to every Module; the result is GetSize() - initial_size, a
\* uint32_t difference written here as an integer (a negative d is 2^32 + d)
FindGlobalVariables(list, name, append, max_matches, variable_list) ==
    LET initial_size == Len(variable_list)
        out == ForEachModule(list, 1, name, append, max_matches, variable_list)
    IN  [results |-> out, ret |-> Len(out) - initial_size]

\* ModuleList::FindGlobalVariables (regex), lines 241-255
FindGlobalVariables_regex(list, regex, append, max_matches, variable_list) ==
    LET initial_size == Len(variable_list)
        out == ForEachModule(list, 1, regex, append, max_matches, variable_list)
    IN  [results |-> out, ret |-> Len(out) - initial_size]

\* ModuleList::FindSymbolsWithNameAndType, lines 258-272
FindSymbolsWithNameAndType(list, name, sc_list, append) ==
    LET start == IF ~append THEN <<>> ELSE sc_list
        initial_size == Len(start)
        out == ForEachModule(list, 1, name, TRUE, 0, start)
    IN  [results |-> out, ret |-> Len(out) - initial_size]

\* ModuleList::FindSymbolsMatchingRegExAndType, lines 274-289
FindSymbolsMatchingRegExAndType(list, regex, sc_list, append) ==
    LET start == IF ~append THEN <<>> ELSE sc_list
        initial_size == Len(start)
        out == ForEachModule(list, 1, regex, TRUE, 0, start)
    IN  [results |-> out, ret |-> Len(out) - initial_size]

\* ModuleList::ResolveSymbolContextsForFileSpec, lines 514-525: no append flag,
\* returns sc_list.GetSize()
ResolveSymbolContextsForFileSpec(list, file_spec, sc_list) ==
    LET out == ForEachModule(list, 1, file_spec, TRUE, 0, sc_list)
    IN  [results |-> out, ret |-> Len(out)]

\* ============================================================================
\* Specification SpecBroadcast: one thread calling a broadcast query on the
\* registry "A" with a result list that already holds up to MaxPrior results.
\* ============================================================================
InitBroadcast == InitQueries /\ m_modules["B"] = <<>>

\* the record of a finished broadcast query: the caller's list before (other)
\* and after (results) the call, and the value returned; a behaviour makes one
\* such call
Broadcast(op, name, append, max_matches, sc_list, res) ==
    /\ th[T0].op = "none"
    /\ th' = [th EXCEPT ![T0] = [IdleThread EXCEPT !.op = op, !.name = name,
                 !.append = append, !.pos = max_matches, !.other = sc_list,
                 !.results = res.results, !.retn = res.ret]]
    /\ UNCHANGED m_modules /\ UnchangedQuery

PriorLists == SeqsUpTo(ModuleIds, MaxPrior)

BFindFunctions == \E name \in Names, append \in BOOLEAN, sc_list \in PriorLists :
    Broadcast("FindFunctions", name, append, 0, sc_list,
              FindFunctions(m_modules["A"], name, append, sc_list))

BFindCompileUnits == \E path \in Names, append \in BOOLEAN, sc_list \in PriorLists :
    Broadcast("FindCompileUnits", path, append, 0, sc_list,
              FindCompileUnits(m_modules["A"], path, append, sc_list))

BFindGlobalVariables ==
    \E name \in Names, append \in BOOLEAN, max_matches \in 1..2,
       variable_list \in PriorLists :
        Broadcast("FindGlobalVariables", name, append, max_matches, variable_list,
                  FindGlobalVariables(m_modules["A"], name, append, max_matches,
                                      variable_list))

BFindGlobalVariablesRegex ==
    \E regex \in Names, append \in BOOLEAN, max_matches \in 1..2,
       variable_list \in PriorLists :
        Broadcast("FindGlobalVariables_regex", regex, append, max_matches, variable_list,
                  FindGlobalVariables_regex(m_modules["A"], regex, append, max_matches,
                                            variable_list))

BFindSymbolsWithNameAndType ==
    \E name \in Names, append \in BOOLEAN, sc_list \in PriorLists :
        Broadcast("FindSymbolsWithNameAndType", name, append, 0, sc_list,
                  FindSymbolsWithNameAndType(m_modules["A"], name, sc_list, append))

BFindSymbolsMatchingRegExAndType ==
    \E regex \in Names, append \in BOOLEAN, sc_list \in PriorLists :
        Broadcast("FindSymbolsMatchingRegExAndType", regex, append, 0, sc_list,
                  FindSymbolsMatchingRegExAndType(m_modules["A"], regex, sc_list, append))

BResolveSymbolContextsForFileSpec == \E file_spec \in Names, sc_list \in PriorLists :
    Broadcast("ResolveSymbolContextsForFileSpec", file_spec, TRUE, 0, sc_list,
              ResolveSymbolContextsForFileSpec(m_modules["A"], file_spec, sc_list))

NextBroadcast ==
    \/ BFindFunctions \/ BFindCompileUnits
    \/ BFindGlobalVariables \/ BFindGlobalVariablesRegex
    \/ BFindSymbolsWithNameAndType \/ BFindSymbolsMatchingRegExAndType
    \/ BResolveSymbolContextsForFileSpec

SpecBroadcast == InitBroadcast /\ [][NextBroadcast]_vars

BroadcastOps ==
    {"FindFunctions", "FindCompileUnits", "FindGlobalVariables",
     "FindGlobalVariables_regex", "FindSymbolsWithNameAndType",
     "FindSymbolsMatchingRegExAndType", "ResolveSymbolContextsForFileSpec"}

\* C12 (as claimed): a broadcast query called with append = true (or without
\* an append flag) on a result list that holds k results returns the number of
\* results this call added, the list's growth, and not k plus that number.
C12_ReturnsAddedCount ==
    LET c == th[T0]
    IN  (c.op \in BroadcastOps /\ c.append)
            => c.retn = Len(c.results) - Len(c.other)

\* the results of every Module of the list for a name, in registry order, each
\* Module giving at most max_matches (0: no limit)
RECURSIVE Merged(_, _, _)
Merged(list, name, max_matches) ==
    IF list = <<>> THEN <<>>
    ELSE Module_Query(Head(list), name, TRUE, max_matches, <<>>)
         \o Merged(Tail(list), name, max_matches)

\* C13 (as claimed): a broadcast query with an append flag ends, for append =
\* false, with the merged results of all Modules in registry order and none of
\* the prior results, and for append = true with the prior results followed by
\* the merged results.
C13_AppendFlagClearsOnce ==
    LET c == th[T0]
    IN  (c.op \in BroadcastOps /\ c.op # "ResolveSymbolContextsForFileSpec")
            => c.results = (IF c.append THEN c.other ELSE <<>>)
                           \o Merged(m_modules["A"], c.name, c.pos)

\* ============================================================================
\* ModuleList::FindTypes and the specification SpecTypes: one thread calling
\* FindTypes on the registry "A" with a type list that already holds up to
\* MaxPrior types.
\* ============================================================================

\* Module::FindTypes (sc, name, NULL, true, max_matches, types): the Module adds
\* its types of that name, at most max_matches of them (0: no limit), to the
\* list and returns how many it added
Module_FindTypes(m, name, max_matches, types) ==
    LET out == Module_Query(m, name, TRUE, max_matches, types)
    IN  [results |-> out, ret |-> Len(out) - Len(types)]

\* lines 363-371: the loop of FindTypes from position pos on; asked is the
\* list of the positions whose Module was called
RECURSIVE FindTypesFrom(_, _, _, _, _, _, _, _)
FindTypesFrom(list, pos, sc_module_sp, name, max_matches, types, total_matches, asked) ==
    IF pos > Len(list)
    THEN [results |-> types, ret |-> total_matches, asked |-> asked]
    ELSE LET call == sc_module_sp = Null \/ sc_module_sp = list[pos]
             r == Module_FindTypes(list[pos], name, max_matches, types)
             total == IF call THEN total_matches + r.ret ELSE total_matches
             types2 == IF call THEN r.results ELSE types
             asked2 == IF call THEN Append(asked, pos) ELSE asked
         IN  IF total >= max_matches
             THEN [results |-> types2, ret |-> total, asked |-> asked2]
             ELSE FindTypesFrom(list, pos + 1, sc_module_sp, name, max_matches,
                                types2, total, asked2)

\* FindTypes without lines 359-360, types.Clear()
FindTypes_keep(list, sc_module_sp, name, append, max_matches, types) ==
    FindTypesFrom(list, 1, sc_module_sp, name, max_matches, types, 0, <<>>)

\* ModuleList::FindTypes, lines 355-374
FindTypes(list, sc_module_sp, name, append, max_matches, types) ==
    FindTypesFrom(list, 1, sc_module_sp, name, max_matches,
                  IF ~append THEN <<>> ELSE types, 0, <<>>)

\* a FindTypes call of the single thread; a behaviour makes one such call
BFindTypes ==
    \E sc_module_sp \in ModuleIds \cup {Null}, name \in Names, append \in BOOLEAN,
       max_matches \in 0..MaxMatches, types \in PriorLists :
        LET res == FindTypes(m_modules["A"], sc_module_sp, name, append,
                             max_matches, types)
        IN  /\ th[T0].op = "none"
            /\ th' = [th EXCEPT ![T0] = [IdleThread EXCEPT !.op = "FindTypes",
                         !.arg = sc_module_sp, !.name = name, !.append = append,
                         !.pos = max_matches, !.other = types,
                         !.results = res.results, !.retn = res.ret,
                         !.asked = res.asked]]
            /\ UNCHANGED m_modules /\ UnchangedQuery

NextTypes == BFindTypes

SpecTypes == InitBroadcast /\ [][NextTypes]_vars

\* the number of types of that name in the Module at position i of the list,
\* as one call of the Module with that limit counts them
MatchCount(list, i, name, max_matches) ==
    Module_FindTypes(list[i], name, max_matches, <<>>).ret

\* the call's context lets the Module at position i be queried
Affine(list, i, sc_module_sp) == sc_module_sp = Null \/ sc_module_sp = list[i]

\* the sum of the match counts of the positions 1..i the context lets through
RECURSIVE RunningTotal(_, _, _, _, _)
RunningTotal(list, i, sc_module_sp, name, max_matches) ==
    IF i = 0 THEN 0
    ELSE RunningTotal(list, i - 1, sc_module_sp, name, max_matches)
         + (IF Affine(list, i, sc_module_sp)
            THEN MatchCount(list, i, name, max_matches) ELSE 0)

\* the positions that are to be queried: let through by the context, and the
\* running total has not reached max_matches at any earlier position
ToBeAsked(list, sc_module_sp, name, max_matches) ==
    {i \in 1..Len(list) :
        /\ Affine(list, i, sc_module_sp)
        /\ \A j \in 1..(i - 1) :
              RunningTotal(list, j, sc_module_sp, name, max_matches) < max_matches}

\* the types of the Modules at the positions of the set, in registry order
RECURSIVE TypesOf(_, _, _, _, _)
TypesOf(list, i, set, name, max_matches) ==
    IF i > Len(list) THEN <<>>
    ELSE (IF i \in set THEN Module_FindTypes(list[i], name, max_matches, <<>>).results
          ELSE <<>>) \o TypesOf(list, i + 1, set, name, max_matches)

\* the sum of the match counts of the Modules at the positions of the set
RECURSIVE SumOf(_, _, _, _, _)
SumOf(list, i, set, name, max_matches) ==
    IF i > Len(list) THEN 0
    ELSE (IF i \in set THEN MatchCount(list, i, name, max_matches) ELSE 0)
         + SumOf(list, i + 1, set, name, max_matches)

\* C21: FindTypes queries the Modules in registry order, only those the
\* context's module (if it has one) lets through, and none after the position
\* at which the running total of matches has reached max_matches; the list
\* ends as the caller's types (none of them when append = false) followed by
\* the types of the queried Modules, and the value returned is the sum of the
\* match counts of the queried Modules.
C21_FindTypesStopsAtMax ==
    LET c == th[T0]
        list == m_modules["A"]
        set == ToBeAsked(list, c.arg, c.name, c.pos)
    IN  c.op = "FindTypes" =>
            /\ {c.asked[k] : k \in 1..Len(c.asked)} = set
            /\ \A k \in 1..(Len(c.asked) - 1) : c.asked[k] < c.asked[k + 1]
            /\ c.retn = SumOf(list, 1, set, c.name, c.pos)
            /\ c.results = (IF c.append THEN c.other ELSE <<>>)
                             \o TypesOf(list, 1, set, c.name, c.pos)

\* a call without a module in its context and with append = false, on a list
\* that held a type, stopped after the second of three Modules
C21_Witness ==
    LET c == th[T0]
    IN  /\ c.op = "FindTypes"
        /\ c.arg = Null /\ ~c.append /\ c.other # <<>>
        /\ Len(m_modules["A"]) = 3
        /\ c.asked = <<1, 2>>
        /\ c.retn >= c.pos /\ c.pos > 0

\* ============================================================================
\* Specification SpecThreadsOps: each thread makes one call on the registry
\* "A" or "B", in the steps of the code: the Mutex::Locker, the reads and
\* writes of m_modules, the calls into the other registry, the return.  "A" is
\* default-constructed; "B" is default-constructed or copy-constructed from
\* "A".  The argument registry of a call is never the receiver itself.
\* ============================================================================
\* the mutex a copy-constructed registry has: lines 39-42 do not name
\* m_modules_mutex, so Mutex::Mutex() makes it, a mutex that is not recursive
PlainMutex == [owner |-> NoThread, count |-> 0, recursive |-> FALSE]

OwnRegs == {"A", "B"}

OtherReg(r) == IF r = "A" THEN "B" ELSE "A"

\* the specs the concurrent FindModules calls ask for: a path or nothing
PathSpecs == {s \in ModuleSpecs : s.uuid = NoUUID /\ s.arch = NoArch}

InitThreadsOps ==
    /\ th = [t \in Threads |-> IdleThread]
    /\ clock = 1
    /\ extRefs = [m \in ModuleIds |-> 1]
    /\ modules = [m \in ModuleIds |-> [path |-> ((m - 1) % NumPaths) + 1, mtime |-> 1]]
    /\ nextId = NumModules + 1
    /\ files = [p \in Paths |-> [mtime |-> 1, obj |-> TRUE]]
    /\ \E a \in SeqsUpTo(ModuleIds, 1), b \in SeqsUpTo(ModuleIds, 1), copied \in BOOLEAN :
          /\ copied => b = a
          /\ m_modules = [r \in Regs |-> IF r = "A" THEN a ELSE IF r = "B" THEN b ELSE <<>>]
          /\ m_modules_mutex = [r \in Regs |->
                                  IF r = "B" /\ copied THEN PlainMutex ELSE FreeMutex]
          /\ hist = [appends |-> 0, removes |-> 0, start |-> a, target |-> Null,
                     calls |-> 0, finished |-> 0, trues |-> 0,
                     spec |-> NoSpec, located |-> NoPath]

UnchangedOps == UNCHANGED <<extRefs, modules, nextId, files, clock, hist>>

\* thread t starts the call op on registry r; first is the first step of op
StartCall(t, op, r, first, arg, module_spec) ==
    /\ th[t].pc = "idle" /\ th[t].op = "none"
    /\ th' = [th EXCEPT ![t] = [IdleThread EXCEPT !.pc = first, !.op = op, !.reg = r,
                 !.out = OtherReg(r), !.arg = arg, !.spec = module_spec]]
    /\ UNCHANGED <<m_modules, m_modules_mutex>> /\ UnchangedOps

\* lines 66-68, 95-99, 152-154, 48-52, 136-138
TCallAppend(t) == \E r \in OwnRegs, m \in ModuleIds :
    StartCall(t, "Append", r, "lock", m, NoSpec)

TCallRemove(t) == \E r \in OwnRegs, m \in ModuleIds :
    StartCall(t, "Remove", r, "lock", m, NoSpec)

TCallClear(t) == \E r \in OwnRegs : StartCall(t, "Clear", r, "lock", Null, NoSpec)

TCallAssign(t) == \E r \in OwnRegs : StartCall(t, "operator=", r, "lock", Null, NoSpec)

TCallRemoveList(t) == \E r \in OwnRegs :
    StartCall(t, "Remove_ModuleList", r, "lock", Null, NoSpec)

\* line 295: FindModules starts with matching_module_list.GetSize()
TCallFindModules(t) == \E r \in OwnRegs, module_spec \in PathSpecs :
    StartCall(t, "FindModules", r, "fm_size", Null, module_spec)

\* the step after the Mutex::Locker at the head of each operation
AfterLock(op) ==
    IF op = "FindModules" THEN "fm_scan"
    ELSE IF op = "Remove_ModuleList" THEN "rl_iter"
    ELSE "body"

\* Mutex::Locker locker(m_modules_mutex) at the head of the operation
TLock(t) ==
    /\ th[t].pc = "lock"
    /\ CanLock(th[t].reg, t)
    /\ m_modules_mutex' = LockBy(th[t].reg, t)
    /\ th' = [th EXCEPT ![t].pc = AfterLock(th[t].op),
                        ![t].pos = 1,
                        ![t].end = Len(m_modules[th[t].out])]
    /\ UNCHANGED m_modules /\ UnchangedOps

\* line 70: m_modules.push_back
TAppendBody(t) ==
    /\ th[t].pc = "body" /\ th[t].op = "Append"
    /\ m_modules' = [m_modules EXCEPT ![th[t].reg] = ModuleList_Append(@, th[t].arg)]
    /\ th' = [th EXCEPT ![t].pc = "ret"]
    /\ UNCHANGED m_modules_mutex /\ UnchangedOps

\* lines 100-109
TRemoveBody(t) ==
    /\ th[t].pc = "body" /\ th[t].op = "Remove"
    /\ LET res == Remove(m_modules[th[t].reg], th[t].arg)
       IN  /\ m_modules' = [m_modules EXCEPT ![th[t].reg] = res.list]
           /\ th' = [th EXCEPT ![t].pc = "ret", ![t].retb = res.ret]
    /\ UNCHANGED m_modules_mutex /\ UnchangedOps

\* line 155
TClearBody(t) ==
    /\ th[t].pc = "body" /\ th[t].op = "Clear"
    /\ m_modules' = [m_modules EXCEPT ![th[t].reg] = Clear(@)]
    /\ th' = [th EXCEPT ![t].pc = "ret"]
    /\ UNCHANGED m_modules_mutex /\ UnchangedOps

\* line 53: m_modules = rhs.m_modules, rhs read without its mutex
TAssignBody(t) ==
    /\ th[t].pc = "body" /\ th[t].op = "operator="
    /\ m_modules' = [m_modules EXCEPT ![th[t].reg] = m_modules[th[t].out]]
    /\ th' = [th EXCEPT ![t].pc = "ret"]
    /\ UNCHANGED m_modules_mutex /\ UnchangedOps

\* line 295: existing_matches = matching_module_list.GetSize(), which takes
\* and releases the output registry's mutex (lines 410-413)
TFmSize(t) ==
    /\ th[t].pc = "fm_size"
    /\ CanLock(th[t].out, t)
    /\ th' = [th EXCEPT ![t].pc = "lock", ![t].retn = GetSize(m_modules[th[t].out])]
    /\ UNCHANGED <<m_modules, m_modules_mutex>> /\ UnchangedOps

\* lines 298-304: the scan of the receiver; a match goes to Append on the output
TFmScan(t) ==
    /\ th[t].pc = "fm_scan"
    /\ LET list == m_modules[th[t].reg]
           pos == th[t].pos
       IN  th' = [th EXCEPT
                 ![t].pc = IF pos > Len(list) THEN "fm_ret"
                           ELSE IF MatchesModuleSpec(modules[list[pos]], th[t].spec)
                           THEN "fm_out_lock" ELSE "fm_scan",
                 ![t].arg = IF pos > Len(list) THEN Null ELSE list[pos],
                 ![t].pos = IF pos > Len(list)
                               \/ MatchesModuleSpec(modules[list[pos]], th[t].spec)
                            THEN pos ELSE pos + 1]
    /\ UNCHANGED <<m_modules, m_modules_mutex>> /\ UnchangedOps

\* line 69 in matching_module_list.Append: the output registry's mutex
TFmOutLock(t) ==
    /\ th[t].pc = "fm_out_lock"
    /\ CanLock(th[t].out, t)
    /\ m_modules_mutex' = LockBy(th[t].out, t)
    /\ th' = [th EXCEPT ![t].pc = "fm_out_push"]
    /\ UNCHANGED m_modules /\ UnchangedOps

\* lines 70-72 in matching_module_list.Append
TFmOutPush(t) ==
    /\ th[t].pc = "fm_out_push"
    /\ m_modules' = [m_modules EXCEPT ![th[t].out] = ModuleList_Append(@, th[t].arg)]
    /\ m_modules_mutex' = UnlockBy(th[t].out, t)
    /\ th' = [th EXCEPT ![t].pc = "fm_scan", ![t].pos = @ + 1]
    /\ UnchangedOps

\* line 305: matching_module_list.GetSize() - existing_matches
TFmRet(t) ==
    /\ th[t].pc = "fm_ret"
    /\ CanLock(th[t].out, t)
    /\ th' = [th EXCEPT ![t].pc = "ret",
                        ![t].retn = GetSize(m_modules[th[t].out]) - @]
    /\ UNCHANGED <<m_modules, m_modules_mutex>> /\ UnchangedOps

\* lines 140-142: the next entry of the argument registry, read without that
\* registry's mutex; end was taken at line 139.  An entry past the current
\* length of the argument (another thread erased it) reads as any reference.
TRlIter(t) ==
    /\ th[t].pc = "rl_iter"
    /\ LET list == m_modules[th[t].out]
           pos == th[t].pos
       IN  IF pos > th[t].end
           THEN th' = [th EXCEPT ![t].pc = "ret"]
           ELSE \E e \in (IF pos <= Len(list) THEN {list[pos]} ELSE ModuleIds \cup {Null}) :
                   th' = [th EXCEPT ![t].arg = e,
                                    ![t].pc = IF e # Null THEN "rl_lock" ELSE "rl_iter",
                                    ![t].pos = IF e # Null THEN pos ELSE pos + 1]
    /\ UNCHANGED <<m_modules, m_modules_mutex>> /\ UnchangedOps

\* line 99 in Remove(*pos): the receiver's mutex, which this thread holds
TRlLock(t) ==
    /\ th[t].pc = "rl_lock"
    /\ CanLock(th[t].reg, t)
    /\ m_modules_mutex' = LockBy(th[t].reg, t)
    /\ th' = [th EXCEPT ![t].pc = "rl_erase"]
    /\ UNCHANGED m_modules /\ UnchangedOps

\* lines 100-110 in Remove(*pos), then line 143
TRlErase(t) ==
    /\ th[t].pc = "rl_erase"
    /\ LET res == Remove(m_modules[th[t].reg], th[t].arg)
       IN  /\ m_modules' = [m_modules EXCEPT ![th[t].reg] = res.list]
           /\ th' = [th EXCEPT ![t].pc = "rl_iter", ![t].pos = @ + 1,
                               ![t].retn = IF res.ret THEN @ + 1 ELSE @]
    /\ m_modules_mutex' = UnlockBy(th[t].reg, t)
    /\ UnchangedOps

\* the Mutex::Locker of the operation goes out of scope and the call returns
TReturn(t) ==
    /\ th[t].pc = "ret"
    /\ m_modules_mutex' = UnlockBy(th[t].reg, t)
    /\ th' = [th EXCEPT ![t].pc = "done"]
    /\ UNCHANGED m_modules /\ UnchangedOps

NextThreadsOps == \E t \in Threads :
    \/ TCallAppend(t) \/ TCallRemove(t) \/ TCallClear(t) \/ TCallAssign(t)
    \/ TCallRemoveList(t) \/ TCallFindModules(t)
    \/ TLock(t) \/ TAppendBody(t) \/ TRemoveBody(t) \/ TClearBody(t) \/ TAssignBody(t)
    \/ TFmSize(t) \/ TFmScan(t) \/ TFmOutLock(t) \/ TFmOutPush(t) \/ TFmRet(t)
    \/ TRlIter(t) \/ TRlLock(t) \/ TRlErase(t)
    \/ TReturn(t)

SpecThreadsOps == InitThreadsOps /\ [][NextThreadsOps]_vars

\* thread t is inside its operation on the receiver r: between the
\* Mutex::Locker at the head of the operation and the return
InsideOp(t, r) ==
    /\ th[t].reg = r
    /\ th[t].pc \in {"body", "fm_scan", "fm_out_lock", "fm_out_push", "fm_ret",
                     "rl_iter", "rl_lock", "rl_erase", "ret"}

\* the next step of thread t reads or writes m_modules of registry r, as the
\* receiver of its operation or as the registry its Append pushes to
Touches(t, r) ==
    \/ th[t].reg = r /\ th[t].pc \in {"body", "fm_scan", "rl_erase"}
    \/ th[t].out = r /\ th[t].pc = "fm_out_push"

\* C14: a thread reads or writes a registry's own sequence only while it holds
\* that registry's mutex, and while a thread is inside an operation on a
\* registry no step of another thread changes that registry's sequence (the
\* operations on one registry exclude each other); the argument registry of
\* operator= and of Remove(otherRegistry) is read without its mutex.
C14_LockedAccess == [][
    /\ \A t \in Threads, r \in OwnRegs :
          (Touches(t, r) \/ InsideOp(t, r)) => m_modules_mutex[r].owner = t
    /\ \A t \in Threads, r \in OwnRegs :
          (InsideOp(t, r) /\ th'[t] = th[t]) => m_modules'[r] = m_modules[r]
    ]_vars

\* one thread is about to change a registry under its mutex while another
\* thread waits at the Mutex::Locker of an operation on the same registry
C14_Witness ==
    \E t, u \in Threads, r \in OwnRegs :
        /\ t # u
        /\ th[t].pc = "body" /\ th[t].reg = r /\ th[t].op = "Append"
        /\ m_modules_mutex[r].owner = t
        /\ th[u].pc = "lock" /\ th[u].reg = r /\ th[u].op = "Remove"

\* the registry whose mutex the next step of thread t acquires ("none": the
\* next step takes no mutex)
WaitsFor(t) ==
    IF th[t].pc \in {"lock", "rl_lock"} THEN th[t].reg
    ELSE IF th[t].pc \in {"fm_size", "fm_out_lock", "fm_ret"} THEN th[t].out
    ELSE "none"

\* thread t cannot take its next step: the mutex it needs is not available
Blocked(t) == WaitsFor(t) # "none" /\ ~CanLock(WaitsFor(t), t)

\* C15 (as claimed): no reachable state is a deadlock, here for registries that
\* were all default-constructed: there is no set of threads each of which
\* waits for a mutex held by a thread of the set.
C15_NoDeadlock ==
    (\A r \in Regs : m_modules_mutex[r].recursive)
    => ~ \E S \in SUBSET Threads :
            /\ S # {}
            /\ \A t \in S : Blocked(t) /\ m_modules_mutex[WaitsFor(t)].owner \in S

\* C16 (as claimed): however the registry was constructed, a thread that holds
\* the registry's mutex and reaches another Mutex::Locker on the same registry
\* acquires it again: no thread waits for a mutex it holds itself.
C16_NoSelfBlock ==
    \A t \in Threads : ~(Blocked(t) /\ m_modules_mutex[WaitsFor(t)].owner = t)

\* C17: GetModuleAtIndex(i) is entry i for i below the length and an empty
\* reference otherwise; GetIndexForModule(p) is the lowest index of an entry
\* with identity p, and the not-found sentinel exactly when there is none (or
\* p is null); at that index GetModuleAtIndex has identity p and FindModule(p)
\* returns the same reference; FindModule(p) is empty exactly when
\* GetIndexForModule(p) is the sentinel; no lookup changes the registry.
C17_LookupsAgree == [][
    LET c == th'[T0]
        list == m_modules["A"]
    IN  /\ c.op = "GetModuleAtIndex" =>
              /\ c.module_sp = IF c.pos < Len(list) THEN list[c.pos + 1] ELSE Null
              /\ c.arg = c.module_sp
        /\ c.op = "GetIndexForModule" =>
              /\ c.retn = LLDB_INVALID_INDEX32 <=> ~Contains(list, c.arg)
              /\ c.retn # LLDB_INVALID_INDEX32 =>
                    /\ c.retn \in 0..(Len(list) - 1)
                    /\ list[c.retn + 1] = c.arg
                    /\ \A j \in 1..c.retn : list[j] # c.arg
                    /\ GetModuleAtIndex(list, c.retn) = c.arg
                    /\ FindModule(list, c.arg) = c.arg
        /\ c.op = "FindModule" =>
              /\ c.module_sp = Null <=>
                     GetIndexForModule(list, c.arg) = LLDB_INVALID_INDEX32
              /\ c.module_sp # Null => c.module_sp = c.arg
        /\ c.op \in {"GetModuleAtIndex", "GetIndexForModule", "FindModule"} =>
              m_modules' = m_modules
    ]_vars

\* GetIndexForModule found, behind another entry, the first of two entries
\* with the identity asked for
C17_Witness ==
    /\ th[T0].op = "GetIndexForModule"
    /\ th[T0].retn = 1
    /\ CountIn(m_modules["A"], th[T0].arg) = 2

====
